---- MODULE Spec2Model ----
(***************************************************************************)
(* Model of main.py: the planner / ranker / executor / analyzer /          *)
(* orchestrator pipeline and the three FastAPI handlers that expose it.    *)
(*                                                                         *)
(* Python strings are sequences of tokens: f"Test-{i+1}" is the token      *)
(* "Test-" followed by the decimal digits of i+1.  A file is a sequence    *)
(* too: the empty sequence is an empty (just truncated) file.              *)
(*                                                                         *)
(* The application runs in one uvicorn process (main.py line 137):         *)
(* execute_tests is an `async def` handler, so all execute_tests requests  *)
(* are coroutines of one event loop and interleave only at an `await`;     *)
(* generate_plan and get_report are plain `def` handlers, which FastAPI    *)
(* runs in worker threads, concurrently with the event loop.               *)
(***************************************************************************)
EXTENDS Integers, Sequences, FiniteSets, TLC

\* ------------------------------------------------------------------------
\* Bounds of the model
\* ------------------------------------------------------------------------
\* number of HTTP requests of one behaviour
MaxReqs == 2

\* ------------------------------------------------------------------------
\* Program constants
\* ------------------------------------------------------------------------
\* range(20) in PlannerAgent.generate_tests
NumTests == 20
\* default of the top_n query parameter of execute_tests
DefaultTopN == 3
\* reproducibility reported by AnalyzerAgent.analyze
Reproducibility == 100

Reqs == 1..MaxReqs

\* values of the query parameter top_n (any integer passes the coercion);
\* tests[:-19] has 1 element
TopNs == {-19, 0, DefaultTopN}

Min(a, b) == IF a < b THEN a ELSE b
Max(a, b) == IF a > b THEN a ELSE b

\* ------------------------------------------------------------------------
\* str(int) and int(str), decimal
\* ------------------------------------------------------------------------
Digit(d) ==
  CASE d = 0 -> "0" [] d = 1 -> "1" [] d = 2 -> "2" [] d = 3 -> "3"
    [] d = 4 -> "4" [] d = 5 -> "5" [] d = 6 -> "6" [] d = 7 -> "7"
    [] d = 8 -> "8" [] d = 9 -> "9"

DigitVal(c) ==
  CASE c = "0" -> 0 [] c = "1" -> 1 [] c = "2" -> 2 [] c = "3" -> 3
    [] c = "4" -> 4 [] c = "5" -> 5 [] c = "6" -> 6 [] c = "7" -> 7
    [] c = "8" -> 8 [] c = "9" -> 9

RECURSIVE Str(_)
Str(n) == IF n < 10 THEN <<Digit(n)>> ELSE Str(n \div 10) \o <<Digit(n % 10)>>

RECURSIVE ParseInt(_)
ParseInt(s) ==
  IF Len(s) = 1 THEN DigitVal(s[1])
  ELSE 10 * ParseInt(SubSeq(s, 1, Len(s) - 1)) + DigitVal(s[Len(s)])

\* ------------------------------------------------------------------------
\* Data models and agents
\* ------------------------------------------------------------------------
TestStep(action, target, value) ==
  [action |-> action, target |-> target, value |-> value]

TestCase(name, steps) == [name |-> name, steps |-> steps]

TestReport(test_case, verdict, artifacts, reproducibility, notes) ==
  [test_case |-> test_case, verdict |-> verdict, artifacts |-> artifacts,
   reproducibility |-> reproducibility, notes |-> notes]

\* f"Test-{i}"
TestName_zero_based(i) == <<"Test-">> \o Str(i)

\* f"Test-{i+1}"
TestName(i) == <<"Test-">> \o Str(i + 1)

\* the body of the loop of generate_tests, for one i of range(20)
PlannedTest(i) ==
  TestCase(TestName(i),
           << TestStep("click", "#start_button", <<>>),
              TestStep("input", "#input_1", Str(i)),
              TestStep("click", "#submit", <<>>) >>)

\* PlannerAgent.generate_tests
generate_tests == [j \in 1..NumTests |-> PlannedTest(j - 1)]

\* Python's tests[:top_n]: a negative stop counts from the end of the list
rank_tests(tests, top_n) ==
  LET stop == IF top_n < 0 THEN Max(Len(tests) + top_n, 0)
                           ELSE Min(top_n, Len(tests))
  IN  SubSeq(tests, 1, stop)

\* an analyzer that leaves the score of the report at zero
analyze_unscored(test, artifacts) ==
  TestReport(test.name, "Pass", artifacts, 0, "Executed successfully")

\* AnalyzerAgent.analyze
analyze(test, artifacts) ==
  TestReport(test.name, "Pass", artifacts, Reproducibility,
             "Executed successfully")

\* f"artifacts/screenshots/{test.name}.png"
ScreenshotPath(name) == <<"artifacts/screenshots/">> \o name \o <<".png">>

\* f"artifacts/reports/{test.name}.json"
ReportPath(name) == <<"artifacts/reports/">> \o name \o <<".json">>

\* a dump that writes the score with its digits in reverse
JsonDump_reversed(report) ==
  LET d == Str(report.reproducibility)
  IN  << <<"test_case", report.test_case>>,
         <<"verdict", <<report.verdict>> >>,
         <<"artifacts", report.artifacts>>,
         <<"reproducibility", [j \in DOMAIN d |-> d[Len(d) + 1 - j]]>>,
         <<"notes", <<report.notes>> >> >>

\* json.dump(report.dict(), f, indent=2): the text of the file, one member
\* per entry, the integer written as its decimal digits
JsonDump(report) ==
  << <<"test_case", report.test_case>>,
     <<"verdict", <<report.verdict>> >>,
     <<"artifacts", report.artifacts>>,
     <<"reproducibility", Str(report.reproducibility)>>,
     <<"notes", <<report.notes>> >> >>

\* json.load(f) of a text written by JsonDump
JsonLoad(text) ==
  [test_case |-> text[1][2], verdict |-> text[2][2][1],
   artifacts |-> text[3][2], reproducibility |-> ParseInt(text[4][2]),
   notes |-> text[5][2][1]]

\* a lookup that skips the test for the file
exists_unchecked(files, path) == TRUE

\* os.path.exists(path)
exists(files, path) == path \in DOMAIN files

\* open(path, "a"): what the file holds is kept
OpenForWrite_append(files, path) ==
  IF path \in DOMAIN files THEN files ELSE (path :> <<>>) @@ files

\* open(path, "w"): the file is created, or truncated if it is there
OpenForWrite(files, path) == (path :> <<>>) @@ files

\* f.write(text) and the close of the file: the text goes behind what the
\* file holds since it was opened
WriteFile(files, path, text) == (path :> (files[path] \o text)) @@ files

\* os.makedirs(path, exist_ok=True)
makedirs(dirs, path) ==
  dirs \cup (IF path = "artifacts/screenshots"
               THEN {"artifacts", "artifacts/screenshots"}
               ELSE {"artifacts", "artifacts/reports"})

\* names a client asks get_report for
QueryNames == {TestName(0), TestName(1), TestName(2), <<"nope">>}

\* ------------------------------------------------------------------------
\* State
\* ------------------------------------------------------------------------
VARIABLES
  kind,        \* request -> "none" | "generate_plan" | "execute_tests" | "get_report"
  pc,          \* request -> where its handler stands
  top_n,       \* request -> query parameter of execute_tests
  test_name,   \* request -> path parameter of get_report
  selected,    \* request -> `selected` of execute_tests, `tests` of run_tests
  idx,         \* request -> position of `test` in the loop of run_tests (1-based)
  stepNo,      \* request -> position of `step` in the loop of execute (1-based)
  artifacts,   \* request -> `artifacts` of the running execute call
  reports,     \* request -> `reports` of run_tests
  exc,         \* request -> an exception is propagating out of execute
  response,    \* request -> what the HTTP layer sent back
  sessions,    \* request -> browsers launched by its execute calls
  fs,          \* path -> content of the file
  dirs,        \* directories that exist
  midWrite,    \* the coroutine between open(..., "w") and the close of the file, or 0
  faultAt,     \* history: request -> idx of the execute call that raised, or 0
  execLog,     \* history: request -> names execute was called with, in order
  written,     \* history: request -> paths of the files it wrote, in order
  hadFile      \* history: request -> the file get_report asks for was there

vars == <<kind, pc, top_n, test_name, selected, idx, stepNo, artifacts,
          reports, exc, response, sessions, fs, dirs, midWrite, faultAt,
          execLog, written, hadFile>>

reqVars == <<kind, top_n, test_name>>
execVars == <<selected, idx, stepNo, artifacts, reports, exc, sessions,
              faultAt, execLog>>
diskVars == <<fs, dirs, written>>

NoResponse == [status |-> 0]
NotFound == [status |-> 200, body |-> [error |-> "Report not found"]]
ServerError == [status |-> 500, body |-> [detail |-> "Internal Server Error"]]

Ended(r) == pc[r] \in {"done", "failed"}
Active(r) == pc[r] \notin {"idle", "done", "failed"}

\* the requests are numbered in the order of their arrival; the next one
\* is taken if fewer than `slots` requests are being served
Admitted(r, slots) ==
  /\ pc[r] = "idle"
  /\ \A q \in Reqs : q < r => pc[q] # "idle"
  /\ Cardinality({q \in Reqs : Active(q)}) < slots

Init ==
  /\ kind = [r \in Reqs |-> "none"]
  /\ pc = [r \in Reqs |-> "idle"]
  /\ top_n = [r \in Reqs |-> 0]
  /\ test_name = [r \in Reqs |-> <<>>]
  /\ selected = [r \in Reqs |-> <<>>]
  /\ idx = [r \in Reqs |-> 0]
  /\ stepNo = [r \in Reqs |-> 0]
  /\ artifacts = [r \in Reqs |-> <<>>]
  /\ reports = [r \in Reqs |-> <<>>]
  /\ exc = [r \in Reqs |-> FALSE]
  /\ response = [r \in Reqs |-> NoResponse]
  /\ sessions = [r \in Reqs |-> <<>>]
  /\ fs = <<>>
  /\ dirs = {}
  /\ midWrite = 0
  /\ faultAt = [r \in Reqs |-> 0]
  /\ execLog = [r \in Reqs |-> <<>>]
  /\ written = [r \in Reqs |-> <<>>]
  /\ hadFile = [r \in Reqs |-> FALSE]

\* the request r is answered with resp
Answer(r, resp) == response' = [response EXCEPT ![r] = resp]

\* ------------------------------------------------------------------------
\* POST /generate_plan
\* ------------------------------------------------------------------------
generate_plan(r, slots) ==
  /\ Admitted(r, slots)
  /\ LET tests == generate_tests
     IN  Answer(r, [status |-> 200,
                    body |-> [total_tests |-> Len(tests), tests |-> tests]])
  /\ kind' = [kind EXCEPT ![r] = "generate_plan"]
  /\ pc' = [pc EXCEPT ![r] = "done"]
  /\ UNCHANGED <<top_n, test_name, execVars, diskVars, midWrite, hadFile>>

\* ------------------------------------------------------------------------
\* GET /report/{test_name}
\* ------------------------------------------------------------------------
\* lines 130-131 and 134: the path, os.path.exists, the not-found payload
get_report(r, slots) ==
  /\ Admitted(r, slots)
  /\ \E name \in QueryNames :
       LET path == ReportPath(name)
       IN  /\ test_name' = [test_name EXCEPT ![r] = name]
           /\ hadFile' = [hadFile EXCEPT ![r] = path \in DOMAIN fs]
           /\ IF exists(fs, path)
                THEN /\ pc' = [pc EXCEPT ![r] = "open"]
                     /\ UNCHANGED response
                ELSE /\ pc' = [pc EXCEPT ![r] = "done"]
                     /\ Answer(r, NotFound)
  /\ kind' = [kind EXCEPT ![r] = "get_report"]
  /\ UNCHANGED <<top_n, execVars, diskVars, midWrite>>

\* lines 132-133: open(path) and json.load(f); open raises if there is no
\* such file, and json.load raises JSONDecodeError on an empty file, which
\* is no JSON document
read_report(r) ==
  /\ pc[r] = "open"
  /\ LET path == ReportPath(test_name[r])
     IN  IF path \notin DOMAIN fs \/ fs[path] = <<>>
           THEN /\ pc' = [pc EXCEPT ![r] = "failed"]
                /\ Answer(r, ServerError)
           ELSE /\ pc' = [pc EXCEPT ![r] = "done"]
                /\ Answer(r, [status |-> 200, body |-> JsonLoad(fs[path])])
  /\ UNCHANGED <<reqVars, execVars, diskVars, midWrite, hadFile>>

\* ------------------------------------------------------------------------
\* POST /execute_tests: execute_tests, run_tests and execute, one action
\* per stretch of code between two awaits
\* ------------------------------------------------------------------------
\* the test of the running iteration of run_tests
CurTest(r) == selected[r][idx[r]]

\* reports.insert(0, report)
AppendReport_front(reps, report) == <<report>> \o reps

\* reports.append(report)
AppendReport(reps, report) == Append(reps, report)

\* what page.screenshot writes; the program never reads it
Png == <<"png">>

\* a playwright started without `async with`: nothing stops it
StopPlaywright_never(browsers) == browsers

\* what leaving `async with async_playwright()` does to the browsers that
\* were launched inside it: the driver is stopped and takes them down
StopPlaywright(browsers) ==
  [b \in DOMAIN browsers |-> [browsers[b] EXCEPT !.open = FALSE]]

\* a run_tests that wraps execute in try / except and goes on
Caught_always(r) == TRUE

\* run_tests and execute_tests have no try / except around execute
Caught(r) == FALSE

\* an awaited browser call raised: the exception leaves the loop over the
\* steps and the `async with`; `step` and `artifacts` die with the frame
Raise(r) ==
  /\ exc' = [exc EXCEPT ![r] = TRUE]
  /\ faultAt' = [faultAt EXCEPT ![r] = idx[r]]
  /\ stepNo' = [stepNo EXCEPT ![r] = 0]
  /\ artifacts' = [artifacts EXCEPT ![r] = <<>>]
  /\ pc' = [pc EXCEPT ![r] = "pw_exit"]

\* the awaited browser call returned, the coroutine goes on to `next`
Proceed(r, next) ==
  /\ pc' = [pc EXCEPT ![r] = next]
  /\ UNCHANGED <<exc, faultAt>>

\* the steps are over: os.makedirs and the path of the screenshot
ToScreenshot(r) ==
  /\ dirs' = makedirs(dirs, "artifacts/screenshots")
  /\ stepNo' = [stepNo EXCEPT ![r] = 0]
  /\ Proceed(r, "screenshot")

\* lines 123-125, 95-97, 56-58: plan, rank, enter run_tests and the first
\* execute, up to the await of chromium.launch
execute_tests(r, slots) ==
  /\ Admitted(r, slots)
  /\ midWrite = 0
  /\ \E n \in TopNs :
       LET tests == generate_tests
           sel == rank_tests(tests, n)
       IN  /\ top_n' = [top_n EXCEPT ![r] = n]
           /\ selected' = [selected EXCEPT ![r] = sel]
           /\ IF sel = <<>>
                THEN /\ pc' = [pc EXCEPT ![r] = "done"]
                     /\ Answer(r, [status |-> 200,
                                   body |-> [executed_tests |-> <<>>]])
                     /\ UNCHANGED <<idx, execLog>>
                ELSE /\ pc' = [pc EXCEPT ![r] = "launch"]
                     /\ idx' = [idx EXCEPT ![r] = 1]
                     /\ execLog' = [execLog EXCEPT ![r] = <<sel[1].name>>]
                     /\ UNCHANGED response
  /\ kind' = [kind EXCEPT ![r] = "execute_tests"]
  /\ UNCHANGED <<test_name, stepNo, artifacts, reports, exc, sessions,
                 faultAt, diskVars, midWrite, hadFile>>

\* lines 57-58: the driver is started by `async with async_playwright()`
\* and browser = await p.chromium.launch(); either can raise
launch(r) ==
  /\ pc[r] = "launch"
  /\ midWrite = 0
  /\ \E ok \in BOOLEAN :
       IF ok
         THEN /\ sessions' = [sessions EXCEPT
                   ![r] = Append(@, [test |-> idx[r], open |-> TRUE])]
              /\ Proceed(r, "new_page")
              /\ UNCHANGED <<stepNo, artifacts>>
         ELSE /\ Raise(r)
              /\ UNCHANGED sessions
  /\ UNCHANGED <<reqVars, selected, idx, reports, response, execLog,
                 diskVars, midWrite, hadFile>>

\* line 59: page = await browser.new_page()
new_page(r) ==
  /\ pc[r] = "new_page"
  /\ midWrite = 0
  /\ \E ok \in BOOLEAN :
       IF ok
         THEN /\ Proceed(r, "goto")
              /\ UNCHANGED <<stepNo, artifacts>>
         ELSE Raise(r)
  /\ UNCHANGED <<reqVars, selected, idx, reports, response, sessions,
                 execLog, diskVars, midWrite, hadFile>>

\* line 60: await page.goto(...), then the head of the loop over the steps
goto(r) ==
  /\ pc[r] = "goto"
  /\ midWrite = 0
  /\ \E ok \in BOOLEAN :
       IF ok
         THEN /\ IF CurTest(r).steps = <<>>
                   THEN ToScreenshot(r)
                   ELSE /\ Proceed(r, "step")
                        /\ stepNo' = [stepNo EXCEPT ![r] = 1]
                        /\ UNCHANGED dirs
              /\ UNCHANGED artifacts
         ELSE /\ Raise(r)
              /\ UNCHANGED dirs
  /\ UNCHANGED <<reqVars, selected, idx, reports, response, sessions,
                 execLog, fs, written, midWrite, hadFile>>

\* lines 62-66: one step; page.click and page.fill are awaited and can
\* raise, a step of any other action is skipped
step(r) ==
  /\ pc[r] = "step"
  /\ midWrite = 0
  /\ LET st == CurTest(r).steps[stepNo[r]]
     IN  \E ok \in BOOLEAN :
           IF ok \/ st.action \notin {"click", "input"}
             THEN /\ IF stepNo[r] < Len(CurTest(r).steps)
                       THEN /\ stepNo' = [stepNo EXCEPT ![r] = @ + 1]
                            /\ Proceed(r, "step")
                            /\ UNCHANGED dirs
                       ELSE ToScreenshot(r)
                  /\ UNCHANGED artifacts
             ELSE /\ Raise(r)
                  /\ UNCHANGED dirs
  /\ UNCHANGED <<reqVars, selected, idx, reports, response, sessions,
                 execLog, fs, written, midWrite, hadFile>>

\* lines 70-72: await page.screenshot(path=...), artifacts.append
screenshot(r) ==
  /\ pc[r] = "screenshot"
  /\ midWrite = 0
  /\ LET path == ScreenshotPath(CurTest(r).name)
     IN  \E ok \in BOOLEAN :
           IF ok
             THEN /\ fs' = (path :> Png) @@ fs
                  /\ written' = [written EXCEPT ![r] = Append(@, path)]
                  /\ artifacts' = [artifacts EXCEPT ![r] = Append(@, path)]
                  /\ Proceed(r, "close")
                  /\ UNCHANGED stepNo
             ELSE /\ Raise(r)
                  /\ UNCHANGED <<fs, written>>
  /\ UNCHANGED <<reqVars, selected, idx, reports, response, sessions,
                 execLog, dirs, midWrite, hadFile>>

\* line 74: await browser.close()
close(r) ==
  /\ pc[r] = "close"
  /\ midWrite = 0
  /\ \E ok \in BOOLEAN :
       IF ok
         THEN /\ sessions' = [sessions EXCEPT
                   ![r] = [@ EXCEPT ![Len(@)] = [@ EXCEPT !.open = FALSE]]]
              /\ Proceed(r, "pw_exit")
              /\ UNCHANGED <<stepNo, artifacts>>
         ELSE /\ Raise(r)
              /\ UNCHANGED sessions
  /\ UNCHANGED <<reqVars, selected, idx, reports, response, execLog,
                 diskVars, midWrite, hadFile>>

\* the end of the `async with` of line 57.  An exception goes on through
\* run_tests and execute_tests, which catch nothing, to the HTTP layer.
\* Otherwise lines 75 and 98-103: return artifacts, analyze, append,
\* makedirs and open(..., "w"), which creates or truncates the file.
pw_exit(r) ==
  /\ pc[r] = "pw_exit"
  /\ midWrite = 0
  /\ sessions' = [sessions EXCEPT ![r] = StopPlaywright(@)]
  /\ IF exc[r] /\ ~Caught(r)
       THEN /\ pc' = [pc EXCEPT ![r] = "failed"]
            /\ Answer(r, ServerError)
            /\ UNCHANGED <<reports, fs, dirs, midWrite>>
       ELSE LET report == analyze(CurTest(r), artifacts[r])
                path == ReportPath(CurTest(r).name)
            IN  /\ reports' = [reports EXCEPT ![r] = AppendReport(@, report)]
                /\ dirs' = makedirs(dirs, "artifacts/reports")
                /\ fs' = OpenForWrite(fs, path)
                /\ midWrite' = r
                /\ pc' = [pc EXCEPT ![r] = "dump"]
                /\ UNCHANGED response
  /\ UNCHANGED <<reqVars, selected, idx, stepNo, artifacts, exc, faultAt,
                 execLog, written, hadFile>>

\* line 104 and the end of the `with`: json.dump and the close of the file;
\* then the next iteration up to the await of its launch, or lines 106 and
\* 126: the reports are returned
dump(r) ==
  /\ pc[r] = "dump"
  /\ midWrite = r
  /\ LET path == ReportPath(CurTest(r).name)
         newFs == WriteFile(fs, path, JsonDump(reports[r][Len(reports[r])]))
     IN  /\ fs' = newFs
         /\ written' = [written EXCEPT ![r] = Append(@, path)]
         /\ midWrite' = 0
         /\ artifacts' = [artifacts EXCEPT ![r] = <<>>]
         /\ IF idx[r] < Len(selected[r])
              THEN /\ idx' = [idx EXCEPT ![r] = @ + 1]
                   /\ execLog' = [execLog EXCEPT
                        ![r] = Append(@, selected[r][idx[r] + 1].name)]
                   /\ pc' = [pc EXCEPT ![r] = "launch"]
                   /\ UNCHANGED response
              ELSE /\ pc' = [pc EXCEPT ![r] = "done"]
                   /\ Answer(r, [status |-> 200,
                                 body |-> [executed_tests |-> reports[r]]])
                   /\ UNCHANGED <<idx, execLog>>
  /\ UNCHANGED <<reqVars, selected, stepNo, reports, exc, sessions, faultAt,
                 dirs, hadFile>>

\* ------------------------------------------------------------------------
\* Specifications
\* ------------------------------------------------------------------------
\* requests arrive at any time and are served concurrently
Next ==
  \E r \in Reqs :
    \/ generate_plan(r, MaxReqs)
    \/ execute_tests(r, MaxReqs)
    \/ get_report(r, MaxReqs)
    \/ read_report(r)
    \/ launch(r)
    \/ new_page(r)
    \/ goto(r)
    \/ step(r)
    \/ screenshot(r)
    \/ close(r)
    \/ pw_exit(r)
    \/ dump(r)

Spec == Init /\ [][Next]_vars

\* a client that waits for each response before it sends the next request
NextSeq ==
  \E r \in Reqs :
    \/ generate_plan(r, 1)
    \/ execute_tests(r, 1)
    \/ get_report(r, 1)
    \/ read_report(r)
    \/ launch(r)
    \/ new_page(r)
    \/ goto(r)
    \/ step(r)
    \/ screenshot(r)
    \/ close(r)
    \/ pw_exit(r)
    \/ dump(r)

SpecSeq == Init /\ [][NextSeq]_vars

\* ------------------------------------------------------------------------
\* Properties
\* ------------------------------------------------------------------------
ExecReqs == {r \in Reqs : kind[r] = "execute_tests"}
PlanReqs == {r \in Reqs : kind[r] = "generate_plan"}
GetReqs == {r \in Reqs : kind[r] = "get_report"}

\* the names of a list of test cases
NamesOf(tests) == [j \in DOMAIN tests |-> tests[j].name]

\* the names of a list of reports
CasesOf(reps) == [j \in DOMAIN reps |-> reps[j].test_case]

\* "Test-1", "Test-2", "Test-3"
FirstThree == << <<"Test-", "1">>, <<"Test-", "2">>, <<"Test-", "3">> >>

\* the response carries exactly the three reports of Test-1, Test-2 and
\* Test-3, in that order, each with verdict "Pass" and reproducibility 100
ThreePassing(resp) ==
  /\ resp.status = 200
  /\ CasesOf(resp.body.executed_tests) = FirstThree
  /\ \A j \in 1..3 : /\ resp.body.executed_tests[j].verdict = "Pass"
                     /\ resp.body.executed_tests[j].reproducibility = 100

\* C1 as stated: every execute_tests request with top_n=3 that has ended
\* returned exactly 3 reports (Test-1, Test-2, Test-3), each "Pass" with
\* reproducibility 100, whatever the browser calls did.
C1_AlwaysThreeReports ==
  \A r \in ExecReqs :
    (top_n[r] = 3 /\ Ended(r)) => ThreePassing(response[r])

\* C1 amended: an execute_tests request with top_n=3 in which no browser
\* call raised returns exactly the 3 reports of Test-1, Test-2, Test-3,
\* each "Pass" with reproducibility 100; one in which a browser call raised
\* returns no report, the client gets the server error.
C1_ThreeReportsUnlessFault ==
  \A r \in ExecReqs :
    (top_n[r] = 3 /\ Ended(r)) =>
      /\ faultAt[r] = 0 => ThreePassing(response[r])
      /\ faultAt[r] # 0 => response[r] = ServerError

C1_Witness ==
  \E r \in ExecReqs :
    top_n[r] = 3 /\ pc[r] = "done" /\ faultAt[r] = 0
      /\ Len(response[r].body.executed_tests) = 3

\* the paths of the report files among the files r wrote, in order
IsReportPath(path) == path[1] = "artifacts/reports/"
ReportsWritten(r) == SelectSeq(written[r], IsReportPath)

\* another coroutine is between the open and the close of the file `path`
BeingRewritten(r, path) ==
  /\ midWrite \notin {0, r}
  /\ ReportPath(CurTest(midWrite).name) = path

\* C2: once the executor call for the k-th selected test has raised, the
\* batch is aborted: the call is not retried and no later test is executed,
\* the request ends with the server error and no report list, the batch has
\* written the report files of the tests 1..k-1 and no other, and those
\* files are on disk with the reports the batch wrote.
C2_FaultAbortsBatch ==
  \A r \in ExecReqs :
    faultAt[r] # 0 =>
      LET k == faultAt[r] IN
        /\ idx[r] = k
        /\ pc[r] \in {"pw_exit", "failed"}
        /\ execLog[r] = SubSeq(NamesOf(selected[r]), 1, k)
        /\ Len(sessions[r]) <= k
        /\ response[r] = IF Ended(r) THEN ServerError ELSE NoResponse
        /\ ReportsWritten(r)
             = [j \in 1..(k - 1) |-> ReportPath(selected[r][j].name)]
        /\ \A j \in 1..(k - 1) :
             LET path == ReportPath(selected[r][j].name) IN
               /\ path \in DOMAIN fs
               /\ \/ fs[path] = JsonDump(reports[r][j])
                  \/ BeingRewritten(r, path)

C2_Witness ==
  \E r \in ExecReqs :
    /\ faultAt[r] = 2
    /\ pc[r] = "failed"
    /\ Len(selected[r]) = 3
    /\ ReportPath(selected[r][1].name) \in DOMAIN fs

\* what a batch writes if it runs to its end: screenshot and report of
\* the first test, then of the second, ...
RECURSIVE ExpectedWrites(_)
ExpectedWrites(tests) ==
  IF tests = <<>> THEN <<>>
  ELSE <<ScreenshotPath(Head(tests).name), ReportPath(Head(tests).name)>>
         \o ExpectedWrites(Tail(tests))

OpenSessions(r) == {b \in DOMAIN sessions[r] : sessions[r][b].open}

\* C3: a batch has at most one browser open at any moment; while the
\* execution of its k-th test is under way the tests 1..k-1, and only they,
\* have been executed, analyzed and their report files written, in list
\* order; the reports it returns are in the order of the selected tests.
C3_OneAtATimeInOrder ==
  \A r \in ExecReqs :
    /\ Cardinality(OpenSessions(r)) <= 1
    /\ execLog[r] = SubSeq(NamesOf(selected[r]), 1, idx[r])
    /\ Len(written[r]) <= 2 * Len(selected[r])
    /\ written[r] = SubSeq(ExpectedWrites(selected[r]), 1, Len(written[r]))
    /\ pc[r] \in {"launch", "new_page", "goto", "step", "screenshot"} =>
         /\ Len(written[r]) = 2 * (idx[r] - 1)
         /\ CasesOf(reports[r]) = SubSeq(NamesOf(selected[r]), 1, idx[r] - 1)
         /\ OpenSessions(r) \subseteq {Len(sessions[r])}
    /\ pc[r] = "done" =>
         /\ CasesOf(response[r].body.executed_tests) = NamesOf(selected[r])
         /\ Len(written[r]) = 2 * Len(selected[r])

C3_Witness ==
  \E r \in ExecReqs :
    /\ pc[r] = "done"
    /\ CasesOf(response[r].body.executed_tests) = FirstThree
    /\ Len(written[r]) = 6

\* the execute call for the j-th test of r is over
CallOver(r, j) == j < idx[r] \/ (j = idx[r] /\ pc[r] \in {"dump", "done", "failed"})

\* the execute call for the j-th test of r has launched its browser
Launched(r, j) ==
  \/ j < idx[r]
  \/ j = idx[r] /\ pc[r] \in {"new_page", "goto", "step", "screenshot",
                              "close", "dump", "done"}

\* C9: every execute call launches at most one browser, exactly one once
\* chromium.launch has returned, and when the call is over, by return or by
\* an exception, no browser it launched is open.
C9_SessionClosedWithCall ==
  \A r \in ExecReqs :
    /\ \A b \in DOMAIN sessions[r] :
         /\ sessions[r][b].test \in 1..idx[r]
         /\ CallOver(r, sessions[r][b].test) => ~sessions[r][b].open
    /\ \A b, c \in DOMAIN sessions[r] :
         sessions[r][b].test = sessions[r][c].test => b = c
    /\ \A j \in 1..idx[r] :
         Launched(r, j) => \E b \in DOMAIN sessions[r] : sessions[r][b].test = j

C9_Witness ==
  \E r \in ExecReqs :
    /\ pc[r] = "failed"
    /\ sessions[r] # <<>>
    /\ sessions[r][Len(sessions[r])].test = faultAt[r]
    /\ ~sessions[r][Len(sessions[r])].open

\* C4 as stated: rank_tests returns the first min(top_n, len(tests)) tests
\* in their order (no test when that minimum is not positive), for every
\* integer top_n that reaches it.
C4_PrefixOfMinLength ==
  \A r \in ExecReqs :
    LET tests == generate_tests
        m == Min(top_n[r], Len(tests))
    IN  /\ Len(selected[r]) = Max(m, 0)
        /\ \A j \in 1..Len(selected[r]) : selected[r][j] = tests[j]

\* C5: a get_report for a name whose report file is not there is answered
\* at once with the not-found payload, never with an error, and no step of
\* a get_report changes a file or a directory.
C5_NotFoundPayload ==
  /\ [](\A r \in GetReqs :
          ~hadFile[r] => (pc[r] = "done" /\ response[r] = NotFound))
  /\ [][\A r \in Reqs :
          (kind'[r] = "get_report" /\ pc'[r] # pc[r]) =>
             (fs' = fs /\ dirs' = dirs)]_vars

C5_Witness ==
  \E r \in GetReqs :
    /\ ~hadFile[r]
    /\ response[r] = NotFound
    /\ \E q \in ExecReqs : q < r /\ pc[q] = "done" /\ written[q] # <<>>

\* the response of the get_report g equals, field by field, the report the
\* execute_tests e returned for the name g asked for
SameReport(e, g) ==
  \E j \in DOMAIN response[e].body.executed_tests :
    LET rep == response[e].body.executed_tests[j] IN
      /\ rep.test_case = test_name[g]
      /\ response[g].status = 200
      /\ response[g].body.test_case = rep.test_case
      /\ response[g].body.verdict = rep.verdict
      /\ response[g].body.artifacts = rep.artifacts
      /\ response[g].body.reproducibility = rep.reproducibility
      /\ response[g].body.notes = rep.notes

\* the range of a sequence
Range(seq) == {seq[j] : j \in DOMAIN seq}

\* C6: an execute_tests with the default top_n that has returned its
\* reports has written exactly the 3 screenshot files and the 3 report
\* files of Test-1, Test-2 and Test-3, each once, and a get_report sent
\* after it (a request with a greater number, the client waiting for each
\* response) for one of these names returns the report execute_tests
\* returned for that name.
C6_ReportsPersisted ==
  \A e \in ExecReqs :
    (top_n[e] = DefaultTopN /\ pc[e] = "done") =>
      /\ Len(written[e]) = 6
      /\ Range(written[e])
           = {<<"artifacts/reports/">> \o FirstThree[j] \o <<".json">> : j \in 1..3}
             \cup {<<"artifacts/screenshots/">> \o FirstThree[j] \o <<".png">> : j \in 1..3}
      /\ Range(written[e]) \subseteq DOMAIN fs
      /\ \A g \in GetReqs :
           (e < g /\ Ended(g) /\ test_name[g] \in Range(FirstThree))
             => (pc[g] = "done" /\ SameReport(e, g))

C6_Witness ==
  \E e \in ExecReqs, g \in GetReqs :
    /\ top_n[e] = DefaultTopN /\ pc[e] = "done"
    /\ e < g /\ pc[g] = "done"
    /\ test_name[g] = FirstThree[3]
    /\ response[g].body.reproducibility = 100

\* r2 is the execute_tests that follows the execute_tests r1, with the
\* same top_n (the client waits for each response)
Consecutive(r1, r2) ==
  /\ r1 < r2
  /\ kind[r1] = "execute_tests" /\ kind[r2] = "execute_tests"
  /\ top_n[r1] = top_n[r2]
  /\ \A q \in Reqs : (r1 < q /\ q < r2) => kind[q] # "execute_tests"

\* since the execute_tests r1 returned its reports, no execute_tests has
\* arrived but the one that follows r1 with the same top_n
OnlyRerunSince(r1) ==
  /\ kind[r1] = "execute_tests"
  /\ pc[r1] = "done"
  /\ \A q \in Reqs :
       (r1 < q /\ kind[q] = "execute_tests") => Consecutive(r1, q)

\* r is the request that arrived last
IsLast(r) == \A q \in Reqs : r < q => pc[q] = "idle"

\* C7: when a successful execute_tests is followed by a successful one with
\* the same top_n, no step taken after the first has returned adds or
\* removes a file, so the files after the second are those after the
\* first; both runs wrote the report file of each executed test, and after
\* the second it holds exactly one report, that of the second run.
C7_SecondRunOverwrites ==
  /\ [][\A r1 \in Reqs :
          (OnlyRerunSince(r1) /\ OnlyRerunSince(r1)') =>
             DOMAIN fs' = DOMAIN fs]_vars
  /\ [](\A r1, r2 \in Reqs :
          (/\ OnlyRerunSince(r1) /\ Consecutive(r1, r2)
           /\ pc[r2] = "done" /\ IsLast(r2)) =>
             \A j \in DOMAIN selected[r2] :
               LET path == ReportPath(selected[r2][j].name) IN
                 /\ path \in Range(written[r1])
                 /\ path \in Range(written[r2])
                 /\ path \in DOMAIN fs
                 /\ Len(fs[path]) = 5
                 /\ JsonLoad(fs[path]) = response[r2].body.executed_tests[j])

C7_Witness ==
  \E r1, r2 \in Reqs :
    /\ OnlyRerunSince(r1) /\ Consecutive(r1, r2)
    /\ top_n[r1] = DefaultTopN
    /\ pc[r2] = "done" /\ IsLast(r2)
    /\ ReportPath(FirstThree[3]) \in Range(written[r2])

\* a decimal numeral without a sign and without a leading zero
IsNumeral(str) ==
  /\ Len(str) >= 1
  /\ \A j \in DOMAIN str :
       str[j] \in {"0", "1", "2", "3", "4", "5", "6", "7", "8", "9"}
  /\ Len(str) > 1 => str[1] # "0"

\* `tests` is a batch of `count` test cases: the i-th (from 0) is named
\* "Test-{i+1}" and has the 3 steps click #start_button, input #input_1
\* with the numeral of i, click #submit; no two have the same name
IsBatch(tests, count) ==
  /\ Len(tests) = count
  /\ \A j \in DOMAIN tests :
       LET t == tests[j] IN
         /\ Len(t.name) >= 2
         /\ t.name[1] = "Test-"
         /\ IsNumeral(Tail(t.name))
         /\ ParseInt(Tail(t.name)) = j
         /\ Len(t.steps) = 3
         /\ t.steps[1] = [action |-> "click", target |-> "#start_button",
                          value |-> <<>>]
         /\ t.steps[2].action = "input"
         /\ t.steps[2].target = "#input_1"
         /\ IsNumeral(t.steps[2].value)
         /\ ParseInt(t.steps[2].value) = j - 1
         /\ t.steps[3] = [action |-> "click", target |-> "#submit",
                          value |-> <<>>]
  /\ \A j, k \in DOMAIN tests : tests[j].name = tests[k].name => j = k

\* the sizes a caller of generate(count) may ask for
Counts == 0..(NumTests + 1)

\* C8 as stated: for every count >= 0 the planner returns a batch of
\* exactly count test cases (3 steps each, named "Test-{i+1}", unique
\* names), and two calls return equal batches.
C8_BatchOfCount ==
  \A r \in PlanReqs :
    /\ \A count \in Counts : IsBatch(response[r].body.tests, count)
    /\ \A q \in PlanReqs : response[q].body.tests = response[r].body.tests

\* C8 amended: the planner takes no count; every call returns a batch of
\* exactly 20 test cases (3 steps each, named "Test-{i+1}" for i in
\* [0, 20), unique names), and two calls return equal batches.
C8_BatchOfTwenty ==
  \A r \in PlanReqs :
    /\ IsBatch(response[r].body.tests, 20)
    /\ response[r].body.total_tests = 20
    /\ \A q \in PlanReqs : response[q].body.tests = response[r].body.tests

C8_Witness ==
  \E r, q \in PlanReqs :
    /\ r # q
    /\ response[r].body.tests[20].name = <<"Test-", "2", "0">>
    /\ response[q].body.tests[10].steps[2].value = <<"9">>

\* the report files on disk
ReportFiles == {path \in DOMAIN fs : IsReportPath(path)}

\* C10 as stated: a get_report that runs while execute_tests requests write
\* the file it asks for is answered with the not-found payload or with a
\* complete report of that name, it never finds the file empty and never
\* raises; when no writer is at work every report file holds one complete
\* report.
C10_ReaderSeesCompleteReport ==
  /\ \A g \in GetReqs :
       /\ pc[g] # "failed"
       /\ pc[g] = "done" =>
            \/ response[g] = NotFound
            \/ /\ response[g].status = 200
               /\ response[g].body.test_case = test_name[g]
               /\ response[g].body.verdict = "Pass"
  /\ midWrite = 0 =>
       \A path \in ReportFiles : Len(fs[path]) = 5

====
